---- MODULE Spec2Model ----
(***************************************************************************)
(* Corona shop: the domain model of src/src/model.rs (Product, OrderItem,  *)
(* Cart, User, UserManager, Catalog, Order, OrderManager,                  *)
(* CoronaApplication) driven by the command loops of src/src/menu.rs and   *)
(* the entry point of src/src/main.rs (load, menu, save).                  *)
(*                                                                         *)
(* f64 values (prices, quantities, amounts) are drawn from small integers, *)
(* which f64 represents and adds exactly.  Strings are TLA+ strings;       *)
(* passwords are byte sequences because the hash reads them bytewise.      *)
(***************************************************************************)
EXTENDS Integers, Sequences, FiniteSets, TLC

VARIABLES
    users,            \* UserManager.users : Vec<User>
    usernames_taken,  \* UserManager.usernames_taken : HashSet<String>
    products,         \* Catalog.products : Vec<Product>
    orders,           \* OrderManager.orders : Vec<Order>
    sequence_id,      \* OrderManager.sequence_id : u64
    file,             \* contents of corona.toml, NoFile when absent
    pc,               \* "main" | "logged_in" | "exited" | "panicked"
    session,          \* index in users of the logged in user, 0 when none
    added             \* per cart and code: <<sum>> of the quantities passed to
                      \* add_item since the code was last absent, <<>> if none

vars == <<users, usernames_taken, products, orders, sequence_id, file, pc,
          session, added>>

app == <<users, usernames_taken, products, orders, sequence_id>>

(***************************************************************************)
(* Bounds of the exploration.                                              *)
(***************************************************************************)
MaxUsers == 2
MaxProducts == 2
MaxOrders == 2
MaxQty == 2
ShopMaxQty == 1
CartMaxOrders == 1
CartMaxProducts == 3
MaxItems == 2
\* the largest sequence_id; it outgrows the number of orders when a start
\* loads a file that lost orders
MaxSequenceId == 3
LifeMaxProducts == 1
LifeMaxQty == 1

(***************************************************************************)
(* Program constants.                                                      *)
(***************************************************************************)
BcryptCost == 4
BcryptMaxBytes == 72
CardNumberLen == 16

(***************************************************************************)
(* Inputs typed at the prompts.                                            *)
(***************************************************************************)
\* "pw"
PwA == <<112, 119>>
\* 73 bytes: 72 times "a", then "b"
PwB == [n \in 1..(BcryptMaxBytes + 1) |->
           IF n <= BcryptMaxBytes THEN 97 ELSE 98]
\* 73 bytes: 72 times "a", then "c"; never given at a registration
PwTwin == [n \in 1..(BcryptMaxBytes + 1) |->
              IF n <= BcryptMaxBytes THEN 97 ELSE 99]

RegisterForms ==
    { [username |-> "admin", password |-> PwA, email |-> "a@x.com"],
      [username |-> "alice", password |-> PwA, email |-> "a@x.com"],
      [username |-> "alice", password |-> PwB, email |-> "b@x.com"] }

ShopRegisterForms == { f \in RegisterForms : f.password = PwA }

Usernames == { f.username : f \in RegisterForms }
Passwords == { f.password : f \in RegisterForms } \cup { PwTwin }

Codes == { "c1", "c2" }

ProductForms ==
    { [code |-> "c1", name |-> "mask", unit_price |-> 1],
      [code |-> "c1", name |-> "gel", unit_price |-> 2],
      [code |-> "c2", name |-> "gel", unit_price |-> 2] }

Quantities == { -1, 0, 1, 2 }
\* f64::NAN, which read_value::<f64> parses from the answer "NaN"; a number
\* no price, quantity or total of the model comes to, and never an operand
\* of its arithmetic
NaN == 1000000
Addresses == { "home", "work" }
CardOk == "4000123412341234"
CardShort == "400012341234123"
PayForms ==
    { [method |-> "cash", card_number |-> "", amount |-> 0],
      [method |-> "cash", card_number |-> "", amount |-> 4],
      [method |-> "pay on delivery", card_number |-> "", amount |-> 2],
      [method |-> "credit", card_number |-> CardOk, amount |-> 4],
      [method |-> "credit card", card_number |-> CardOk, amount |-> 0],
      [method |-> "credit card", card_number |-> CardShort, amount |-> 4],
      [method |-> "cheque", card_number |-> "", amount |-> 4],
      [method |-> "cash", card_number |-> "", amount |-> NaN] }

\* corona.toml does not exist
NoFile == [present |-> FALSE]
\* corona.toml exists and std::fs::read_to_string or toml::from_str rejects
\* it, as they do a text that stops inside a table
Undecodable == [present |-> TRUE, decodable |-> FALSE]
\* save(): what toml::to_string, File::create and write_all come to
SaveOutcomes == { "written", "encode_failed", "create_failed", "write_failed" }
\* pay returned before building a payment
NoPayment == [method |-> "none"]

(***************************************************************************)
(* Helpers on sequences.                                                   *)
(***************************************************************************)
Abs(n) == IF n < 0 THEN -n ELSE n
Min(a, b) == IF a <= b THEN a ELSE b
Max(a, b) == IF a >= b THEN a ELSE b

\* f64 comparisons: every comparison with NaN is false
F64Lt(a, b) == a # NaN /\ b # NaN /\ a < b
F64Ge(a, b) == a # NaN /\ b # NaN /\ a >= b

\* Iterator::find: the least of the indices that satisfy the predicate, 0 if
\* there is none
FindFirst(indices) ==
    IF indices = {} THEN 0
    ELSE CHOOSE i \in indices : \A j \in indices : i <= j

RECURSIVE SumSeq(_)
SumSeq(s) == IF s = <<>> THEN 0 ELSE s[1] + SumSeq(Tail(s))

(***************************************************************************)
(* Product, OrderItem, Order                                               *)
(***************************************************************************)
\* Product::new
ProductNew(code, name, unit_price) ==
    [code |-> code, name |-> name, unit_price |-> unit_price]

\* OrderItem::total_price
ItemTotalPrice(item) == item.quantity * item.product.unit_price

\* Order::total_price
TotalPrice(order) ==
    SumSeq([i \in DOMAIN order.items |->
                order.items[i].product.unit_price * order.items[i].quantity])

Open == [tag |-> "open"]
Closed(payment) == [tag |-> "closed", payment |-> payment]
Cash == [method |-> "cash"]
CreditCard(card_number) == [method |-> "credit_card", card_number |-> card_number]

\* mutation of Order::close: the payment is stored whatever the state
CloseOrder_Overwrite(order, payment) ==
    [order EXCEPT !.state = Closed(payment)]

\* mutation of Order::close: closing also takes the items out of the order
CloseOrder_DropItems(order, payment) ==
    IF order.state = Open
    THEN [order EXCEPT !.state = Closed(payment), !.items = <<>>]
    ELSE order

\* Order::close: the order after the call
CloseOrder(order, payment) ==
    IF order.state = Open
    THEN [order EXCEPT !.state = Closed(payment)]
    ELSE order

\* Order::close: the value returned
CloseResult(order, payment) == order.state = Open

(***************************************************************************)
(* Cart                                                                    *)
(***************************************************************************)
\* mutation of Cart::add_item: the quantity of an existing entry is replaced
AddItem_Replace(cart, product, quantity) ==
    LET i == FindFirst({ n \in DOMAIN cart :
                             cart[n].product.code = product.code })
    IN  IF i # 0
        THEN [cart EXCEPT ![i].quantity = quantity]
        ELSE Append(cart, [product |-> product, quantity |-> quantity])

\* mutation of Cart::add_item: entries are matched on the whole product
AddItem_ByProduct(cart, product, quantity) ==
    LET i == FindFirst({ n \in DOMAIN cart : cart[n].product = product })
    IN  IF i # 0
        THEN [cart EXCEPT ![i].quantity = @ + quantity]
        ELSE Append(cart, [product |-> product, quantity |-> quantity])

\* mutation of Cart::add_item: an existing entry takes the product passed in
AddItem_Refresh(cart, product, quantity) ==
    LET i == FindFirst({ n \in DOMAIN cart :
                             cart[n].product.code = product.code })
    IN  IF i # 0
        THEN [cart EXCEPT ![i].quantity = @ + quantity,
                          ![i].product = product]
        ELSE Append(cart, [product |-> product, quantity |-> quantity])

\* Cart::add_item
AddItem(cart, product, quantity) ==
    LET i == FindFirst({ n \in DOMAIN cart :
                             cart[n].product.code = product.code })
    IN  IF i # 0
        THEN [cart EXCEPT ![i].quantity = @ + quantity]
        ELSE Append(cart, [product |-> product, quantity |-> quantity])

\* mutation of Cart::remove_item: the retain predicate is inverted
RemoveItem_Inverted(cart, code) ==
    SelectSeq(cart, LAMBDA it : it.product.code = code)

\* Cart::remove_item
RemoveItem(cart, code) ==
    SelectSeq(cart, LAMBDA it : it.product.code # code)

(***************************************************************************)
(* User, UserManager                                                       *)
(***************************************************************************)
\* bcrypt::hash(password, 4): the salted digest is determined, up to the
\* salt, by the cost and the first 72 bytes of the password
BcryptHash(password) ==
    [cost |-> BcryptCost,
     key  |-> IF Len(password) > BcryptMaxBytes
              THEN SubSeq(password, 1, BcryptMaxBytes)
              ELSE password]

\* bcrypt::verify(password, hash)
BcryptVerify(password, hash) == BcryptHash(password).key = hash.key

\* mutation of User::is_admin: every user is an admin
IsAdmin_Anyone(user) == user.username # ""

\* User::is_admin
IsAdmin(user) == user.username = "admin"

\* UserManager::add_user: the value returned (HashSet::insert is true iff new)
AddUserResult(taken, username) == username \notin taken

\* UserManager::add_user: the set after the call
AddUserTaken(taken, username) == taken \cup { username }

\* UserManager::add_user: the user list after the call
AddUserUsers(us, taken, username, password, email) ==
    IF AddUserResult(taken, username)
    THEN Append(us, [username      |-> username,
                     password_hash |-> BcryptHash(password),
                     email         |-> email,
                     cart          |-> <<>>])
    ELSE us

\* UserManager::user_login_mut: index of the user found, 0 for None
UserLogin(us, username, password) ==
    FindFirst({ n \in DOMAIN us :
                  /\ us[n].username = username
                  /\ BcryptVerify(password, us[n].password_hash) })

(***************************************************************************)
(* Catalog                                                                 *)
(***************************************************************************)
\* Catalog::add_product
AddProduct(ps, product) == Append(ps, product)

\* mutation of Catalog::remove_product: only the first product of the code
\* is removed
RemoveProduct_First(ps, code) ==
    LET i == FindFirst({ n \in DOMAIN ps : ps[n].code = code })
    IN  IF i = 0 THEN ps
        ELSE SubSeq(ps, 1, i - 1) \o SubSeq(ps, i + 1, Len(ps))

\* Catalog::remove_product
RemoveProduct(ps, code) == SelectSeq(ps, LAMBDA p : p.code # code)

(***************************************************************************)
(* OrderManager                                                            *)
(***************************************************************************)
\* OrderManager::checkout: the order pushed
CheckoutOrder(seq_id, user, delivery_address) ==
    [order_id         |-> seq_id,
     username         |-> user.username,
     items            |-> user.cart,
     delivery_address |-> delivery_address,
     state            |-> Open]

\* mutation of OrderManager::checkout: the counter is not advanced
NextSequenceId_Stuck(seq_id) == seq_id

\* OrderManager::checkout: self.sequence_id += 1; the u64 cannot overflow
\* within MaxOrders checkouts of an application that started at 0
NextSequenceId(seq_id) == seq_id + 1

\* mutation of OrderManager::checkout: the items are cloned, not taken
TakenCart_Kept(cart) == cart

\* OrderManager::checkout: std::mem::take(&mut user.cart.0) leaves the default
TakenCart(cart) == <<>>

(***************************************************************************)
(* CoronaApplication: persistence                                          *)
(***************************************************************************)
\* Product: code, name, unit_price renamed "price"
SerProduct(product) ==
    [code |-> product.code, name |-> product.name,
     price |-> product.unit_price]

DeProduct(t) == [code |-> t.code, name |-> t.name, unit_price |-> t.price]

\* OrderItem: the product flattened into the item's table, then quantity
SerItem(item) ==
    [code |-> item.product.code, name |-> item.product.name,
     price |-> item.product.unit_price, quantity |-> item.quantity]

DeItem(t) ==
    [product |-> [code |-> t.code, name |-> t.name, unit_price |-> t.price],
     quantity |-> t.quantity]

\* OrderPayment: tag "payment_method", content "payment", snake_case
SerPayment(payment) ==
    IF payment.method = "cash"
    THEN [payment_method |-> "cash"]
    ELSE [payment_method |-> "credit_card",
          payment |-> [card_number |-> payment.card_number]]

DePayment(t) ==
    IF t.payment_method = "cash" THEN Cash
    ELSE CreditCard(t.payment.card_number)

\* OrderState: tag "order_state", content "state", snake_case
SerState(state) ==
    IF state.tag = "open"
    THEN [order_state |-> "open"]
    ELSE [order_state |-> "closed",
          state |-> [payment |-> SerPayment(state.payment)]]

DeState(t) ==
    IF t.order_state = "open" THEN Open
    ELSE Closed(DePayment(t.state.payment))

\* Order
SerOrder(order) ==
    [order_id |-> order.order_id, username |-> order.username,
     items |-> [k \in DOMAIN order.items |-> SerItem(order.items[k])],
     delivery_address |-> order.delivery_address,
     state |-> SerState(order.state)]

DeOrder(t) ==
    [order_id |-> t.order_id, username |-> t.username,
     items |-> [k \in DOMAIN t.items |-> DeItem(t.items[k])],
     delivery_address |-> t.delivery_address,
     state |-> DeState(t.state)]

\* User; Cart is a newtype of Vec<OrderItem>
SerUser(user) ==
    [username |-> user.username, password_hash |-> user.password_hash,
     email |-> user.email,
     cart |-> [k \in DOMAIN user.cart |-> SerItem(user.cart[k])]]

DeUser(t) ==
    [username |-> t.username, password_hash |-> t.password_hash,
     email |-> t.email,
     cart |-> [k \in DOMAIN t.cart |-> DeItem(t.cart[k])]]

\* toml::to_string(self): the three managers flattened into one table, with
\* every field the derived Serialize writes, that is all but the
\* #[serde(skip)] usernames_taken
Serialize(us, ps, os, seq_id) ==
    [present |-> TRUE, decodable |-> TRUE,
     users |-> [i \in DOMAIN us |-> SerUser(us[i])],
     products |-> [i \in DOMAIN ps |-> SerProduct(ps[i])],
     orders |-> [i \in DOMAIN os |-> SerOrder(os[i])],
     sequence_id |-> seq_id]

\* The text of toml::to_string(self) is a sequence of tables: the top-level
\* one, holding sequence_id and every empty array as "name = []", then one
\* [[users]] table for each user, followed by one [[users.cart]] table for
\* each item of the cart, then one [[products]] table for each product, then
\* the tables of each order.  An order ends with the tables of its state,
\* and no order is decoded without them: the tables of one order count as
\* one here.

\* the number of tables that hold the users and their carts
UserTables(us) == SumSeq([i \in DOMAIN us |-> 1 + Len(us[i].cart)])

\* the number of tables of the whole text, the top-level one included
TextTables(us, ps, os) == 1 + UserTables(us) + Len(ps) + Len(os)

\* the users that the first k tables after the top-level one hold; the last
\* of them may have lost items of the cart
RECURSIVE CutUsers(_, _)
CutUsers(us, k) ==
    IF us = <<>> \/ k <= 0
    THEN <<>>
    ELSE LET m == Min(k - 1, Len(us[1].cart))
         IN  <<[us[1] EXCEPT !.cart = SubSeq(us[1].cart, 1, m)]>>
                 \o CutUsers(Tail(us), k - 1 - m)

\* toml::from_str on the first k tables after the top-level one: a Vec that
\* was written as tables and has none of them in the text is a missing
\* field, and so is the cart of a user whose [[users.cart]] tables are all
\* cut off
CutDecodable(us, ps, os, k) ==
    LET cu == CutUsers(us, k)
    IN  /\ us # <<>> => cu # <<>>
        /\ \A i \in DOMAIN cu : us[i].cart # <<>> => cu[i].cart # <<>>
        /\ ps # <<>> => k - UserTables(us) >= 1
        /\ os # <<>> => k - UserTables(us) - Len(ps) >= 1

\* the arrays that the first k tables after the top-level one hold
CutProducts(us, ps, k) ==
    SubSeq(ps, 1, Min(Max(k - UserTables(us), 0), Len(ps)))

CutOrders(us, ps, os, k) ==
    SubSeq(os, 1, Min(Max(k - UserTables(us) - Len(ps), 0), Len(os)))

\* what the last line of a text that holds these users, products and orders
\* holds: the state of an order, the price of a product, the quantity of a
\* cart item, the "cart = []" of a user, or the sequence_id of the
\* top-level table
CutEnd(cu, cp, co) ==
    IF co # <<>> THEN "state"
    ELSE IF cp # <<>> THEN "price"
    ELSE IF cu = <<>> THEN "sequence_id"
    ELSE IF cu[Len(cu)].cart # <<>> THEN "quantity"
    ELSE "cart"

\* the number that this last line holds, 0 when it holds none; an f64 of
\* the state is an integer here, written "12.0"
CutNumber(cu, cp, co, seq_id) ==
    LET end == CutEnd(cu, cp, co)
    IN  CASE end = "price" -> cp[Len(cp)].unit_price
          [] end = "quantity" ->
                 cu[Len(cu)].cart[Len(cu[Len(cu)].cart)].quantity
          [] end = "sequence_id" -> seq_id
          [] OTHER -> 0

\* the number of decimal digits of n >= 0
RECURSIVE Digits(_)
Digits(n) == IF n < 10 THEN 1 ELSE 1 + Digits(n \div 10)

\* the number that toml::from_str reads of the decimal text of n without
\* its last d digits
RECURSIVE DropDigits(_, _)
DropDigits(n, d) ==
    IF n < 0 THEN -DropDigits(-n, d)
    ELSE IF d = 0 THEN n
    ELSE DropDigits(n \div 10, d - 1)

\* where the text stops: after `tables` tables, the top-level one included,
\* of which the last lacks at most its final line feed, the ".0" of its
\* last number and the last `dropped` digits of that number.  tables = 0
\* stands for every other text, the empty one among them
NoCut == [tables |-> 0, dropped |-> 0]

\* the file that holds the text up to the cut and nothing else: a number
\* that lost digits is read as the number of the digits left, and a line
\* that lost all of them, or more than the final line feed of a text that
\* is no number, is rejected
CutFile(us, ps, os, seq_id, cut) ==
    LET k == cut.tables - 1
        cu == CutUsers(us, k)
        cp == CutProducts(us, ps, k)
        co == CutOrders(us, ps, os, k)
        end == CutEnd(cu, cp, co)
        n == DropDigits(CutNumber(cu, cp, co, seq_id), cut.dropped)
    IN  IF /\ cut.tables >= 1
           /\ CutDecodable(us, ps, os, k)
           /\ cut.dropped > 0 =>
                  /\ end \in { "price", "quantity", "sequence_id" }
                  /\ cut.dropped < Digits(Abs(CutNumber(cu, cp, co, seq_id)))
        THEN CASE end = "price" ->
                      Serialize(cu, [cp EXCEPT ![Len(cp)].unit_price = n],
                                co, seq_id)
               [] end = "quantity" ->
                      Serialize([cu EXCEPT ![Len(cu)].cart =
                                     [@ EXCEPT ![Len(@)].quantity = n]],
                                cp, co, seq_id)
               [] end = "sequence_id" -> Serialize(cu, cp, co, n)
               [] OTHER -> Serialize(cu, cp, co, seq_id)
        ELSE Undecodable

\* the numbers of the state that the text can end with
TextNumbers(us, ps, seq_id) ==
    { seq_id } \cup { ps[i].unit_price : i \in DOMAIN ps }
        \cup UNION { { us[i].cart[j].quantity : j \in DOMAIN us[i].cart } :
                     i \in DOMAIN us }

\* where the write of save() can stop: after any table and any digit but
\* the last of a number of the text when it fails, and nowhere (written as
\* NoCut) when it does not fail or is not reached
Cuts(us, ps, os, seq_id, outcome) ==
    IF outcome = "write_failed"
    THEN { [tables |-> t, dropped |-> d] :
               t \in 0..TextTables(us, ps, os),
               d \in UNION { 0..(Digits(Abs(n)) - 1) :
                                 n \in TextNumbers(us, ps, seq_id) } }
    ELSE { NoCut }

\* mutation of CoronaApplication::save: the text is written while it is
\* encoded, so that a failed encoding leaves a part of it in the file
SavedFile_Streaming(f, us, ps, os, seq_id, outcome, cut) ==
    CASE outcome = "written" -> Serialize(us, ps, os, seq_id)
      [] outcome = "write_failed" -> CutFile(us, ps, os, seq_id, cut)
      [] outcome = "encode_failed" -> CutFile(us, ps, os, seq_id, cut)
      [] OTHER -> f

\* CoronaApplication::save: the file after the call.  std::fs::write runs
\* only on the text of a finished encoding; it creates (and empties) the
\* file, then writes the text, and a write that fails leaves the part of
\* the text that it wrote
SavedFile(f, us, ps, os, seq_id, outcome, cut) ==
    CASE outcome = "written" -> Serialize(us, ps, os, seq_id)
      [] outcome = "write_failed" -> CutFile(us, ps, os, seq_id, cut)
      [] OTHER -> f

\* CoronaApplication::save: the value returned, Some(()) as TRUE
SaveResult(outcome) == outcome = "written"

\* the usernames_taken of a deserialized UserManager: #[serde(skip)] fills it
\* with Default::default()
LoadedTaken(us) == {}

\* CoronaApplication::default()
DefaultApp ==
    [users |-> <<>>, usernames_taken |-> {}, products |-> <<>>,
     orders |-> <<>>, sequence_id |-> 0]

\* mutation of CoronaApplication::load: the counter is not read back
Load_CounterSkipped(f) ==
    IF f.present /\ f.decodable
    THEN [users |-> [i \in DOMAIN f.users |-> DeUser(f.users[i])],
          usernames_taken |-> LoadedTaken(f.users),
          products |-> [i \in DOMAIN f.products |-> DeProduct(f.products[i])],
          orders |-> [i \in DOMAIN f.orders |-> DeOrder(f.orders[i])],
          sequence_id |-> 0]
    ELSE DefaultApp

\* CoronaApplication::load: toml::from_str of the file contents, or
\* CoronaApplication::default() when reading or decoding fails
Load(f) ==
    IF f.present /\ f.decodable
    THEN [users |-> [i \in DOMAIN f.users |-> DeUser(f.users[i])],
          usernames_taken |-> LoadedTaken(f.users),
          products |-> [i \in DOMAIN f.products |-> DeProduct(f.products[i])],
          orders |-> [i \in DOMAIN f.orders |-> DeOrder(f.orders[i])],
          sequence_id |-> f.sequence_id]
    ELSE DefaultApp

\* ghost: the entries a cart holds when a process starts stand for the
\* add_item calls of the processes before it
AddsOf(us) ==
    [i \in DOMAIN us |->
        [c \in Codes |->
            LET k == FindFirst({ n \in DOMAIN us[i].cart :
                                     us[i].cart[n].product.code = c })
            IN  IF k = 0 THEN <<>> ELSE <<us[i].cart[k].quantity>>]]

(***************************************************************************)
(* main(): load() and enter menu::main.  A process starts from the file f. *)
(***************************************************************************)
InitFrom(f) ==
    /\ file = f
    /\ users = Load(f).users
    /\ usernames_taken = Load(f).usernames_taken
    /\ products = Load(f).products
    /\ orders = Load(f).orders
    /\ sequence_id = Load(f).sequence_id
    /\ added = AddsOf(users)
    /\ pc = "main"
    /\ session = 0

\* the first run: no corona.toml yet
Init == InitFrom(NoFile)

(***************************************************************************)
(* menu::main commands                                                     *)
(***************************************************************************)
\* "register"
Register(form) ==
    /\ pc = "main"
    /\ users' = AddUserUsers(users, usernames_taken, form.username,
                             form.password, form.email)
    /\ usernames_taken' = AddUserTaken(usernames_taken, form.username)
    /\ added' = IF Len(users') > Len(users)
                THEN Append(added, [c \in Codes |-> <<>>])
                ELSE added
    /\ UNCHANGED <<products, orders, sequence_id, file, pc, session>>

\* "login"
Login(username, password) ==
    /\ pc = "main"
    /\ LET i == UserLogin(users, username, password)
       IN  /\ session' = i
           /\ pc' = IF i # 0 THEN "logged_in" ELSE "main"
    /\ UNCHANGED <<app, file, added>>

\* "save"
Save(outcome, cut) ==
    /\ pc = "main"
    /\ file' = SavedFile(file, users, products, orders, sequence_id, outcome,
                        cut)
    /\ UNCHANGED <<app, pc, session, added>>

\* "quit": menu::main returns and main() saves, whatever save() returns
Quit(outcome, cut) ==
    /\ pc = "main"
    /\ file' = SavedFile(file, users, products, orders, sequence_id, outcome,
                        cut)
    /\ pc' = "exited"
    /\ UNCHANGED <<app, session, added>>

\* the program is run again: main() calls CoronaApplication::load()
Start ==
    /\ pc \in { "exited", "panicked" }
    /\ users' = Load(file).users
    /\ usernames_taken' = Load(file).usernames_taken
    /\ products' = Load(file).products
    /\ orders' = Load(file).orders
    /\ sequence_id' = Load(file).sequence_id
    /\ added' = AddsOf(users')
    /\ pc' = "main"
    /\ session' = 0
    /\ UNCHANGED file

(***************************************************************************)
(* menu::logged_in_menu commands                                           *)
(***************************************************************************)
\* "product add": the arm runs product_add if user.is_admin(); for another
\* user the command falls through to the last arm, which only prints
ProductAddCatalog(user, ps, form) ==
    IF IsAdmin(user)
    THEN AddProduct(ps, ProductNew(form.code, form.name, form.unit_price))
    ELSE ps

\* "product remove": likewise
ProductRemoveCatalog(user, ps, code) ==
    IF IsAdmin(user) THEN RemoveProduct(ps, code) ELSE ps

\* "product add"
ProductAdd(form) ==
    /\ pc = "logged_in"
    /\ products' = ProductAddCatalog(users[session], products, form)
    /\ UNCHANGED <<users, usernames_taken, orders, sequence_id, file, pc,
                   session, added>>

\* "product remove"
ProductRemove(code) ==
    /\ pc = "logged_in"
    /\ products' = ProductRemoveCatalog(users[session], products, code)
    /\ UNCHANGED <<users, usernames_taken, orders, sequence_id, file, pc,
                   session, added>>

\* cart_add: the cart after the command.  products().get(item_index - 1)
\* is None for an index above the catalog, and for index 0 when the
\* subtraction wraps (CartAddZero has the build in which it panics)
CartAddCart(cart, ps, item_index, quantity) ==
    IF item_index - 1 \in 0..(Len(ps) - 1)
    THEN AddItem(cart, ps[item_index], quantity)
    ELSE cart

\* "cart add" with an item index that selects a product
CartAdd(item_index, quantity) ==
    /\ pc = "logged_in"
    /\ item_index \in 1..Len(products)
    /\ LET product == products[item_index]
       IN  /\ users' = [users EXCEPT
                           ![session].cart =
                               CartAddCart(@, products, item_index, quantity)]
           /\ added' = [added EXCEPT ![session][product.code] =
                                         IF @ = <<>> THEN <<quantity>>
                                         ELSE <<@[1] + quantity>>]
    /\ UNCHANGED <<usernames_taken, products, orders, sequence_id, file, pc,
                   session>>

\* "cart add" with an item index above the catalog: get() yields None
CartAddNoItem(item_index) ==
    /\ pc = "logged_in"
    /\ item_index > Len(products)
    /\ UNCHANGED <<app, file, pc, session, added>>

\* "cart add" with item index 0: item_index - 1 underflows usize; a build
\* with overflow checks panics, one without wraps and get() yields None
CartAddZero ==
    /\ pc = "logged_in"
    /\ pc' \in { "panicked", "logged_in" }
    /\ session' = IF pc' = "panicked" THEN 0 ELSE session
    /\ UNCHANGED <<app, file, added>>

\* "cart remove"
CartRemove(code) ==
    /\ pc = "logged_in"
    /\ users' = [users EXCEPT ![session].cart = RemoveItem(@, code)]
    /\ added' = [added EXCEPT ![session][code] = <<>>]
    /\ UNCHANGED <<usernames_taken, products, orders, sequence_id, file, pc,
                   session>>

\* "checkout"
Checkout(delivery_address) ==
    /\ pc = "logged_in"
    /\ orders' = Append(orders,
                        CheckoutOrder(sequence_id, users[session],
                                      delivery_address))
    /\ sequence_id' = NextSequenceId(sequence_id)
    /\ users' = [users EXCEPT ![session].cart = TakenCart(@)]
    /\ added' = [added EXCEPT ![session] = [c \in Codes |-> <<>>]]
    /\ UNCHANGED <<usernames_taken, products, file, pc, session>>

\* mutation of pay: the admin finds the orders of every user
PayFind_AdminToo(os, order_id, user) ==
    FindFirst({ n \in DOMAIN os :
                  /\ os[n].order_id = order_id
                  /\ \/ os[n].username = user.username
                     \/ user.username = "admin" })

\* pay: the order the command selects, 0 when none
PayFind(os, order_id, user) ==
    FindFirst({ n \in DOMAIN os :
                  /\ os[n].order_id = order_id
                  /\ os[n].username = user.username })

\* mutation of pay: the length of the card number is not looked at
PayPayment_AnyCard(total_price, method, card_number, amount) ==
    IF method \in { "cash", "pay on delivery" }
    THEN IF F64Lt(amount, total_price) THEN NoPayment ELSE Cash
    ELSE IF method \in { "credit", "credit card" }
    THEN IF F64Lt(amount, total_price) THEN NoPayment
         ELSE CreditCard(card_number)
    ELSE NoPayment

\* pay: the payment built from the answers, NoPayment when the command
\* returns early
PayPayment(total_price, method, card_number, amount) ==
    IF method \in { "cash", "pay on delivery" }
    THEN IF F64Lt(amount, total_price) THEN NoPayment ELSE Cash
    ELSE IF method \in { "credit", "credit card" }
    THEN IF Len(card_number) # CardNumberLen THEN NoPayment
         ELSE IF F64Lt(amount, total_price) THEN NoPayment
         ELSE CreditCard(card_number)
    ELSE NoPayment

\* pay: the orders after the command
PayOrders(os, user, order_id, method, card_number, amount) ==
    LET i == PayFind(os, order_id, user)
    IN  IF i = 0
        THEN os
        ELSE LET payment == PayPayment(TotalPrice(os[i]), method,
                                       card_number, amount)
             IN  IF payment = NoPayment
                 THEN os
                 ELSE [os EXCEPT ![i] = CloseOrder(@, payment)]

\* "pay"
Pay(order_id, method, card_number, amount) ==
    /\ pc = "logged_in"
    /\ orders' = PayOrders(orders, users[session], order_id, method,
                           card_number, amount)
    /\ UNCHANGED <<users, usernames_taken, products, sequence_id, file, pc,
                   session, added>>

\* "logout"
Logout ==
    /\ pc = "logged_in"
    /\ pc' = "main"
    /\ session' = 0
    /\ UNCHANGED <<app, file, added>>

(***************************************************************************)
(* Exploration caps, applied to the state a command leads to: the lengths  *)
(* of the three lists, the size of a quantity, and the number of           *)
(* OrderItems held by all carts and orders together.                       *)
(***************************************************************************)
ItemCount(us, os) ==
    SumSeq([i \in DOMAIN us |-> Len(us[i].cart)])
        + SumSeq([i \in DOMAIN os |-> Len(os[i].items)])

Within(max_users, max_products, max_orders, max_qty, max_items) ==
    /\ Len(users') <= max_users
    /\ Len(products') <= max_products
    /\ Len(orders') <= max_orders
    /\ \A i \in DOMAIN users' : \A k \in DOMAIN users'[i].cart :
           Abs(users'[i].cart[k].quantity) <= max_qty
    /\ ItemCount(users', orders') <= max_items
    /\ sequence_id' <= MaxSequenceId

(***************************************************************************)
(* Spec: the program over its whole life, runs and restarts included,      *)
(* with one product form, one quantity, one address and one way to pay.    *)
(***************************************************************************)
LifeProduct == [code |-> "c1", name |-> "mask", unit_price |-> 1]
LifePay == [method |-> "cash", card_number |-> "", amount |-> 4]

WithinLife ==
    Within(MaxUsers, LifeMaxProducts, MaxOrders, LifeMaxQty, MaxItems)

Next ==
    \/ \E form \in RegisterForms : Register(form) /\ WithinLife
    \/ \E u \in Usernames, p \in Passwords : Login(u, p)
    \/ \E outcome \in SaveOutcomes :
       \E cut \in Cuts(users, products, orders, sequence_id, outcome) : Save(outcome, cut)
    \/ \E outcome \in SaveOutcomes :
       \E cut \in Cuts(users, products, orders, sequence_id, outcome) : Quit(outcome, cut)
    \/ Start
    \/ ProductAdd(LifeProduct) /\ WithinLife
    \/ ProductRemove("c1")
    \/ \E i \in 1..LifeMaxProducts : CartAdd(i, 1) /\ WithinLife
    \/ CartAddNoItem(LifeMaxProducts + 1)
    \/ CartAddZero
    \/ CartRemove("c1")
    \/ Checkout("home") /\ WithinLife
    \/ \E id \in 0..MaxOrders :
          Pay(id, LifePay.method, LifePay.card_number, LifePay.amount)
    \/ Logout

Spec == Init /\ [][Next]_vars

(***************************************************************************)
(* A state of one run in which admin and alice have registered: the start  *)
(* of the two specifications below, which explore what the logged in menu  *)
(* does in more detail than Spec can.                                      *)
(***************************************************************************)
ShopUsers ==
    AddUserUsers(AddUserUsers(<<>>, {}, "admin", PwA, "a@x.com"), { "admin" },
                 "alice", PwA, "a@x.com")

InitShop ==
    /\ users = ShopUsers
    /\ usernames_taken = { "admin", "alice" }
    /\ products = <<>>
    /\ orders = <<>>
    /\ sequence_id = 0
    /\ file = NoFile
    /\ added = AddsOf(users)
    /\ pc = "main"
    /\ session = 0

(***************************************************************************)
(* SpecShop: orders.  Every product form, address and way to pay, carts    *)
(* filled one unit at a time.                                              *)
(***************************************************************************)
WithinShop == Within(MaxUsers, MaxProducts, MaxOrders, ShopMaxQty, MaxItems)

NextShop ==
    \/ \E form \in ShopRegisterForms : Register(form) /\ WithinShop
    \/ \E u \in Usernames, p \in Passwords : Login(u, p)
    \/ \E form \in ProductForms : ProductAdd(form) /\ WithinShop
    \/ \E code \in Codes : ProductRemove(code)
    \/ \E i \in 1..MaxProducts : CartAdd(i, 1) /\ WithinShop
    \/ \E i \in 1..(MaxProducts + 1) : CartAddNoItem(i)
    \/ CartAddZero
    \/ \E code \in Codes : CartRemove(code)
    \/ \E a \in Addresses : Checkout(a) /\ WithinShop
    \/ \E id \in 0..MaxOrders, f \in PayForms :
          Pay(id, f.method, f.card_number, f.amount)
    \/ Logout

SpecShop == InitShop /\ [][NextShop]_vars

(***************************************************************************)
(* SpecCart: carts and the catalog.  Every product form and quantity,      *)
(* one address, no payment.                                                *)
(***************************************************************************)
WithinCart ==
    Within(MaxUsers, CartMaxProducts, CartMaxOrders, MaxQty, MaxItems)

NextCart ==
    \/ \E u \in Usernames, p \in Passwords : Login(u, p)
    \/ \E form \in ProductForms : ProductAdd(form) /\ WithinCart
    \/ \E code \in Codes : ProductRemove(code)
    \/ \E i \in 1..CartMaxProducts, q \in Quantities :
          CartAdd(i, q) /\ WithinCart
    \/ \E i \in 1..(CartMaxProducts + 1) : CartAddNoItem(i)
    \/ \E code \in Codes : CartRemove(code)
    \/ Checkout("home") /\ WithinCart
    \/ Logout

SpecCart == InitShop /\ [][NextCart]_vars

(***************************************************************************)
(* Properties                                                              *)
(***************************************************************************)
UsernamesOf(us) == { us[i].username : i \in DOMAIN us }
UsersNamed(us, username) == { i \in DOMAIN us : us[i].username = username }
Payments == { Cash, CreditCard(CardOk), CreditCard(CardShort) }

\* C1: in every reachable state no two users have the same username, and
\* at most one user is the admin.
C1_UniqueUsernames ==
    /\ \A i, j \in DOMAIN users :
           i # j => users[i].username # users[j].username
    /\ Cardinality({ i \in DOMAIN users : IsAdmin(users[i]) }) <= 1

\* C2: in every reachable state, a state restored by load() included, the
\* taken-usernames set is exactly the set of usernames of the users present.
C2_TakenIsUsernames == usernames_taken = UsernamesOf(users)

\* C8: add_user with a taken username returns false and changes nothing, the
\* manager holding exactly one user of that name; with a free username it
\* returns true and appends one user of that name with an empty cart.
C8_AddUser ==
    \A f \in RegisterForms :
        LET res == AddUserResult(usernames_taken, f.username)
            after == AddUserUsers(users, usernames_taken, f.username,
                                  f.password, f.email)
        IN  IF f.username \in usernames_taken
            THEN /\ ~res
                 /\ after = users
                 /\ Cardinality(UsersNamed(after, f.username)) = 1
            ELSE /\ res
                 /\ Len(after) = Len(users) + 1
                 /\ SubSeq(after, 1, Len(users)) = users
                 /\ after[Len(after)].username = f.username
                 /\ after[Len(after)].cart = <<>>

\* what C3 asks of one step
C3_CheckoutStep ==
    /\ Len(orders') # Len(orders) =>
           /\ pc = "logged_in"
           /\ Len(orders') = Len(orders) + 1
           /\ LET o == orders'[Len(orders')]
                  cart == users[session].cart
              IN  /\ o.items = cart
                  /\ o.username = users[session].username
                  /\ o.state = Open
                  /\ users'[session].cart = <<>>
                  /\ cart = <<>> => Len(o.items) = 0 /\ TotalPrice(o) = 0
    /\ \A k \in DOMAIN orders :
           /\ k \in DOMAIN orders'
           /\ orders'[k].items = orders[k].items
           /\ TotalPrice(orders'[k]) = TotalPrice(orders[k])

\* C3: a step that adds an order is a checkout of the logged in user: it
\* empties that user's cart and appends one Open order carrying the user's
\* name and the cart's former items, in order (none, at total price 0, for
\* an empty cart); and no step, a catalog or cart edit included, changes the
\* items or the total price of an order that exists.
C3_Checkout == [][C3_CheckoutStep]_vars

\* an order with an item beside an order made of an empty cart; the owner of
\* the first has since put a different product of the same code in the cart,
\* and the catalog has been emptied
C3_Witness ==
    \E k, e \in DOMAIN orders, i \in DOMAIN users :
        /\ orders[k].items # <<>>
        /\ orders[e].items = <<>>
        /\ users[i].username = orders[k].username
        /\ users[i].cart # <<>>
        /\ users[i].cart[1].product.code = orders[k].items[1].product.code
        /\ users[i].cart[1].product # orders[k].items[1].product
        /\ products = <<>>

\* what C4 asks of one state.  sequence_id = Len(orders) tells the
\* applications that come of a fresh one by commands, and by quits and
\* starts that lose no order, from those loaded of a file that a failed
\* write cut short
C4_IdsInv ==
    /\ sequence_id = Len(orders) =>
           \A k \in DOMAIN orders : orders[k].order_id = k - 1
    /\ \A k \in DOMAIN orders : orders[k].order_id < sequence_id
    /\ \A k, l \in DOMAIN orders :
           k # l => orders[k].order_id # orders[l].order_id

\* what C4 asks of one step; a start that follows a panic or a failed save
\* loads the application of an earlier save or a part of this one, which is
\* another application
C4_IdsStep ==
    /\ \/ pc \notin { "exited", "panicked" }
       \/ /\ pc = "exited"
          /\ file = Serialize(users, products, orders, sequence_id)
       => /\ sequence_id' >= sequence_id
          /\ sequence_id = Len(orders) => sequence_id' = Len(orders')
    /\ Len(orders') = Len(orders) + 1 =>
           /\ orders'[Len(orders')].order_id = sequence_id
           /\ sequence_id = Len(orders) =>
                  orders'[Len(orders')].order_id = Len(orders)

\* C4: the n-th checkout makes the order of order_id n-1, whoever checks
\* out and whatever happens in between; all order ids are pairwise distinct
\* and below sequence_id; and sequence_id never decreases.
C4_OrderIds == [](C4_IdsInv) /\ [][C4_IdsStep]_vars

\* two orders of two users, made in two runs of the program
C4_Witness ==
    /\ Len(orders) = 2
    /\ sequence_id = 2
    /\ orders[2].order_id = 1
    /\ orders[1].username # orders[2].username
    /\ file.present
    /\ file.decodable
    /\ Len(file.orders) = 1
    /\ pc = "logged_in"

\* C5: close on an Open order returns true and leaves it Closed with the
\* payment given; a second close returns false and leaves it as it was.
C5_Close ==
    \A k \in DOMAIN orders : \A p1, p2 \in Payments :
        LET o == orders[k]
            o1 == CloseOrder(o, p1)
        IN  /\ o.state = Open =>
                /\ CloseResult(o, p1)
                /\ o1 = [o EXCEPT !.state = Closed(p1)]
            /\ o.state # Open =>
                /\ ~CloseResult(o, p1)
                /\ o1 = o
            /\ ~CloseResult(o1, p2)
            /\ CloseOrder(o1, p2) = o1
            /\ o1.state.tag = "closed"

\* an order paid in cash beside one still open
C5_Witness ==
    \E k, l \in DOMAIN orders :
        orders[k].state = Closed(Cash) /\ orders[l].state = Open

\* what C6 asks of one step
C6_StateStep ==
    /\ \A k \in DOMAIN orders :
           /\ k \in DOMAIN orders'
           /\ orders[k].state # Open => orders'[k].state = orders[k].state
           /\ orders'[k].state # orders[k].state =>
                  \E p \in Payments : orders'[k].state = Closed(p)
    /\ \A k \in DOMAIN orders' \ DOMAIN orders : orders'[k].state = Open

\* C6: an order is created Open, its state changes only from Open to
\* Closed, and a Closed order stays Closed with the same payment.
C6_OpenThenClosed == [][C6_StateStep]_vars

\* an order paid by card, and a later order
C6_Witness ==
    /\ Len(orders) = 2
    /\ orders[1].state = Closed(CreditCard(CardOk))
    /\ orders[2].state = Open

\* what C7 asks of one step
C7_FrameStep ==
    /\ \A k \in DOMAIN orders :
           /\ k \in DOMAIN orders'
           /\ [orders'[k] EXCEPT !.state = orders[k].state] = orders[k]
    /\ \A k, l \in DOMAIN orders :
           /\ orders'[k].state # orders[k].state
           /\ orders'[l].state # orders[l].state
           => k = l
    /\ \A k \in DOMAIN orders :
           orders'[k].state # orders[k].state =>
               /\ pc = "logged_in"
               /\ k = PayFind(orders, orders[k].order_id, users[session])
               /\ Len(orders') = Len(orders)
               /\ UNCHANGED <<users, usernames_taken, products, sequence_id,
                              file, pc, session>>

\* C7: an order keeps its place, order_id, username, items and address; a
\* step changes the state of at most one order, and such a step is a pay of
\* the logged in user, on the order it selects, that changes nothing else.
C7_OrderFrame == [][C7_FrameStep]_vars

\* a paid order with items, delivered to "work", followed by another order
C7_Witness ==
    /\ Len(orders) = 2
    /\ orders[1].state # Open
    /\ orders[1].items # <<>>
    /\ orders[1].delivery_address = "work"
    /\ orders[2].username # orders[1].username

EntriesOf(cart, code) == { k \in DOMAIN cart : cart[k].product.code = code }

\* C9: after add_item calls for one code on one cart, the cart holds
\* exactly one entry of that code, and its quantity is the sum of the
\* quantities added, zero and negative ones included.

C9_SumOfAdded ==
    \A i \in DOMAIN users : \A c \in Codes :
        added[i][c] # <<>> =>
            /\ Cardinality(EntriesOf(users[i].cart, c)) = 1
            /\ \A k \in EntriesOf(users[i].cart, c) :
                   users[i].cart[k].quantity = added[i][c][1]

\* one code added to until the sum is -2, another added to until it is 0
C9_Witness ==
    \E i \in DOMAIN users :
        added[i]["c1"] = <<-2>> /\ added[i]["c2"] = <<0>>

\* C10: a cart holds at most one entry for a product code.
C10_OneEntryPerCode ==
    \A i \in DOMAIN users : \A k, l \in DOMAIN users[i].cart :
        k # l => users[i].cart[k].product.code # users[i].cart[l].product.code

\* the catalog holds two different products of one code, and a cart holds
\* that code with a quantity no single add can give
C10_Witness ==
    /\ Len(products) = 2
    /\ products[1].code = products[2].code
    /\ products[1] # products[2]
    /\ \E i \in DOMAIN users : \E k \in DOMAIN users[i].cart :
           /\ users[i].cart[k].product.code = products[1].code
           /\ users[i].cart[k].quantity = -2

\* C11: remove_item(code) followed by add_item(product of that code, q)
\* leaves exactly one entry of the code, a fresh one of quantity q whatever
\* quantity the cart held before; remove_item of a code the cart does not
\* hold leaves the cart as it was.
C11_RemoveThenAdd ==
    \A i \in DOMAIN users : \A f \in ProductForms : \A q \in Quantities :
        LET cart == users[i].cart
            product == ProductNew(f.code, f.name, f.unit_price)
            removed == RemoveItem(cart, f.code)
            after == AddItem(removed, product, q)
        IN  /\ EntriesOf(removed, f.code) = {}
            /\ Cardinality(EntriesOf(after, f.code)) = 1
            /\ \A k \in EntriesOf(after, f.code) :
                   after[k] = [product |-> product, quantity |-> q]
            /\ Len(after) = Len(removed) + 1
            /\ EntriesOf(cart, f.code) = {} => removed = cart

\* a cart that holds two codes: one with a quantity built up by adds, which
\* a removal must drop whole, the other standing behind it with the quantity
\* of a single add
C11_Witness ==
    \E i \in DOMAIN users :
        /\ Len(users[i].cart) = 2
        /\ users[i].cart[1].quantity = 2
        /\ users[i].cart[1].product.code = "c2"
        /\ users[i].cart[2].product.code = "c1"
        /\ users[i].cart[2].quantity = -1
        /\ added[i]["c1"] = <<-1>>

\* C12: user_login returns a user only when that user has the username
\* given and the password given is the exact one of that user's
\* registration; every other login, wrong password or unknown username
\* alike, returns the one value None.
C12_Login ==
    \A u \in Usernames : \A p \in Passwords :
        LET i == UserLogin(users, u, p)
        IN  /\ i \in { 0 } \cup DOMAIN users
            /\ i # 0 =>
                   /\ users[i].username = u
                   /\ \E f \in RegisterForms :
                          /\ f.username = u
                          /\ f.password = p
                          /\ users[i].password_hash = BcryptHash(f.password)

\* what C13 asks of one state: the application that load() makes of the
\* file that save() writes of the state
C13_RoundTripInv ==
    LET l == Load(SavedFile(file, users, products, orders, sequence_id,
                            "written", NoCut))
    IN  /\ l.users = users
        /\ l.products = products
        /\ l.orders = orders
        /\ l.sequence_id = sequence_id
        /\ \A i \in DOMAIN l.users : \A a \in Addresses :
           \A k \in DOMAIN l.orders :
               CheckoutOrder(l.sequence_id, l.users[i], a).order_id
                   > l.orders[k].order_id

\* what C13 asks of one step: the start that follows a quit whose save
\* wrote the file
C13_RoundTripStep ==
    /\ pc = "exited"
    /\ file = Serialize(users, products, orders, sequence_id)
    => /\ pc' = "main"
       /\ users' = users
       /\ products' = products
       /\ orders' = orders
       /\ sequence_id' = sequence_id

\* C13: save() followed by load() gives an application with the same
\* users (names, credentials, emails, carts), catalog, orders and
\* sequence_id, so that the first checkout after the reload gets an
\* order_id above that of every persisted order.
C13_RoundTrip == [](C13_RoundTripInv) /\ [][C13_RoundTripStep]_vars

\* a run that started from a saved file (no username is taken) and holds
\* what the file holds: a product, a paid order with an item, an open
\* order, and a user with an item in the cart
C13_Witness ==
    /\ pc = "main"
    /\ users # <<>>
    /\ usernames_taken = {}
    /\ file.present
    /\ file.decodable
    /\ Load(file).users = users
    /\ Load(file).orders = orders
    /\ products # <<>>
    /\ \E k, l \in DOMAIN orders :
           /\ orders[k].state = Closed(Cash)
           /\ orders[k].items # <<>>
           /\ orders[l].state = Open
    /\ \E i \in DOMAIN users : users[i].cart # <<>>

\* what C18 asks of one state: of load() on a file that is missing or is
\* not decodable, and of save() with each outcome of its two steps
C18_LoadSaveInv ==
    /\ \A f \in { NoFile, Undecodable } :
           /\ Load(f).users = <<>>
           /\ Load(f).products = <<>>
           /\ Load(f).orders = <<>>
           /\ Load(f).sequence_id = 0
    /\ \A outcome \in SaveOutcomes :
       \A cut \in Cuts(users, products, orders, sequence_id, outcome) :
           LET f == SavedFile(file, users, products, orders, sequence_id,
                              outcome, cut)
           IN  /\ SaveResult(outcome) <=> outcome = "written"
               /\ SaveResult(outcome) =>
                      f = Serialize(users, products, orders, sequence_id)
               /\ outcome = "encode_failed" => f = file

\* what C18 asks of one step: a start never fails, and one that finds no
\* decodable file starts empty
C18_LoadSaveStep ==
    pc \in { "exited", "panicked" } =>
        /\ pc' = "main"
        /\ ~(file.present /\ file.decodable) =>
               /\ users' = <<>>
               /\ products' = <<>>
               /\ orders' = <<>>
               /\ sequence_id' = 0

\* C18: load() never fails: of a file that is missing, unreadable or not
\* decodable it makes a fresh application, with no users, products or
\* orders and sequence_id 0; save() reports failure as the value None and
\* touches the file only once the whole state is encoded.
C18_LoadSave == [](C18_LoadSaveInv) /\ [][C18_LoadSaveStep]_vars

\* the program has exited with users, a product and an order in memory, its
\* last save having failed in the write: the next start finds a file that
\* is not decodable
C18_Witness ==
    /\ pc = "exited"
    /\ file = Undecodable
    /\ users # <<>>
    /\ products # <<>>
    /\ orders # <<>>
    /\ sequence_id > 0

\* what C14 asks of one state: of the two commands in the session of each
\* user who is not named "admin"
C14_AdminOnlyInv ==
    \A i \in DOMAIN users :
        users[i].username # "admin" =>
            /\ \A form \in ProductForms :
                   ProductAddCatalog(users[i], products, form) = products
            /\ \A code \in Codes :
                   ProductRemoveCatalog(users[i], products, code) = products

\* what C14 asks of one step
C14_AdminOnlyStep ==
    products' # products =>
        /\ pc = "logged_in"
        /\ users[session].username = "admin"
        /\ \/ \E form \in ProductForms :
                  products' = Append(products,
                                     [code |-> form.code, name |-> form.name,
                                      unit_price |-> form.unit_price])
           \/ \E code \in Codes :
                  /\ \A k \in DOMAIN products' : products'[k].code # code
                  /\ Len(products') < Len(products)

\* C14: in one run of the menu the catalog changes only by "product add"
\* and "product remove" in the session of the user named "admin"; the two
\* commands in the session of any other user leave the catalog as it is.
C14_AdminOnly == [](C14_AdminOnlyInv) /\ [][C14_AdminOnlyStep]_vars

\* alice is logged in, with an item in the cart, and the admin has filled
\* the catalog
C14_Witness ==
    /\ pc = "logged_in"
    /\ users[session].username = "alice"
    /\ users[session].cart # <<>>
    /\ Len(products) = 2

\* C15: an order is Closed by the pay command only after the validation of
\* the payment passed: the payment is Cash with an amount tendered not
\* below the order's total price, or CreditCard with a card number of
\* exactly 16 characters and an amount on the card not below the total;
\* so every Closed CreditCard payment has a 16-character card number.
C15_ValidatedPayment ==
    /\ \A k \in DOMAIN orders :
           /\ orders[k].state.tag = "closed"
           /\ orders[k].state.payment.method = "credit_card"
           => Len(orders[k].state.payment.card_number) = 16
    /\ pc = "logged_in" =>
           \A id \in 0..MaxOrders : \A f \in PayForms :
               LET after == PayOrders(orders, users[session], id, f.method,
                                      f.card_number, f.amount)
               IN  \A k \in DOMAIN orders :
                       after[k].state # orders[k].state =>
                           /\ after[k].state.tag = "closed"
                           /\ F64Ge(f.amount, TotalPrice(orders[k]))
                           /\ \/ after[k].state.payment = Cash
                              \/ /\ after[k].state.payment =
                                         CreditCard(f.card_number)
                                 /\ Len(f.card_number) = 16

\* C16: a rejected command applies nothing: a cart add whose item index
\* selects no product of the catalog leaves the cart as it is, and a pay
\* whose order id is not found, whose method is unknown, whose card number
\* has not 16 characters, whose amount is below the total, or whose order
\* is closed already leaves every order as it is; neither touches anything
\* else of the application.
C16_NoPartialApply ==
    pc = "logged_in" =>
        LET user == users[session]
        IN  /\ \A item_index \in 0..(MaxProducts + 1) : \A q \in Quantities :
                   item_index \notin 1..Len(products) =>
                       CartAddCart(user.cart, products, item_index, q)
                           = user.cart
            /\ \A id \in 0..MaxOrders : \A f \in PayForms :
                   LET mine == { k \in DOMAIN orders :
                                    /\ orders[k].order_id = id
                                    /\ orders[k].username = user.username }
                       cash == f.method \in { "cash", "pay on delivery" }
                       card == f.method \in { "credit", "credit card" }
                       rejected ==
                           \/ mine = {}
                           \/ ~cash /\ ~card
                           \/ card /\ Len(f.card_number) # 16
                           \/ \E k \in mine :
                                  /\ \A j \in mine : k <= j
                                  /\ \/ orders[k].state # Open
                                     \/ F64Lt(f.amount, TotalPrice(orders[k]))
                   IN  rejected =>
                           PayOrders(orders, user, id, f.method,
                                     f.card_number, f.amount) = orders

\* the user logged in has a paid order and an item in the cart, beside the
\* open order of another user and a catalog of one product
C16_Witness ==
    /\ pc = "logged_in"
    /\ Len(products) = 1
    /\ users[session].cart # <<>>
    /\ \E k, l \in DOMAIN orders :
           /\ orders[k].username = users[session].username
           /\ orders[k].state # Open
           /\ orders[l].username # users[session].username
           /\ orders[l].state = Open
           /\ orders[l].items # <<>>

\* what C20 asks of one state: of pay, in the session of the user logged
\* in, on each order of another user
C20_OwnOrdersInv ==
    pc = "logged_in" =>
        \A k \in DOMAIN orders :
            orders[k].username # users[session].username =>
                /\ PayFind(orders, orders[k].order_id, users[session]) = 0
                /\ \A f \in PayForms :
                       PayOrders(orders, users[session], orders[k].order_id,
                                 f.method, f.card_number, f.amount) = orders

\* what C20 asks of one step
C20_OwnOrdersStep ==
    \A k \in DOMAIN orders :
        orders'[k].state # orders[k].state =>
            /\ pc = "logged_in"
            /\ orders[k].username = users[session].username

\* C20: pay in the session of a user changes the state of an order only if
\* the order carries that user's name, the admin's session included; for
\* the order id of another user's order pay finds no order and leaves that
\* order as it is.
C20_OwnOrders == [](C20_OwnOrdersInv) /\ [][C20_OwnOrdersStep]_vars

\* the admin is logged in and has paid an order of their own; the order of
\* alice is still open
C20_Witness ==
    /\ pc = "logged_in"
    /\ users[session].username = "admin"
    /\ \E k, l \in DOMAIN orders :
           /\ orders[k].username = "admin"
           /\ orders[k].state # Open
           /\ orders[l].username = "alice"
           /\ orders[l].state = Open
           /\ orders[l].items # <<>>

\* C17: no operation ends the process: in every reachable state, one
\* restored by load() included, register, login, cart add with any item
\* index (0 included), checkout, pay, save and load return normally, so
\* that the program is never in a panic.
C17_NoPanic == pc # "panicked"

\* what C19 asks of one state: of remove_product on the catalog, with each
\* code, one that no product has included
C19_RemoveProductInv ==
    \A code \in Codes \cup { "c3" } :
        LET r == RemoveProduct(products, code)
            kept == { k \in DOMAIN products : products[k].code # code }
        IN  /\ \A k \in DOMAIN r : r[k].code # code
            /\ Len(r) = Cardinality(kept)
            /\ \E g \in [DOMAIN r -> kept] :
                   /\ \A a, b \in DOMAIN r : a < b => g[a] < g[b]
                   /\ \A k \in DOMAIN r : r[k] = products[g[k]]
            /\ kept = DOMAIN products => r = products

\* what C19 asks of one step: a change of the catalog changes no cart and
\* no order
C19_RemoveProductStep ==
    products' # products => users' = users /\ orders' = orders

\* C19: remove_product(code) removes every product of the code, duplicates
\* included, keeps the other products in their order, and leaves a catalog
\* without the code as it is; it never changes a cart or an order.
C19_RemoveProduct ==
    [](C19_RemoveProductInv) /\ [][C19_RemoveProductStep]_vars

\* the catalog keeps two products of code c2 and none of code c1, of which a
\* cart and an order still hold an item
C19_Witness ==
    /\ Len(products) = 2
    /\ \A k \in DOMAIN products : products[k].code = "c2"
    /\ \E i \in DOMAIN users : \E k \in DOMAIN users[i].cart :
           users[i].cart[k].product.code = "c1"
    /\ \E o \in DOMAIN orders : \E k \in DOMAIN orders[o].items :
           orders[o].items[k].product.code = "c1"

\* what C21 asks of one state: of add_item on each cart, with each
\* product whose code the cart holds and each quantity
C21_SnapshotInv ==
    \A i \in DOMAIN users : \A f \in ProductForms : \A q \in Quantities :
        LET cart == users[i].cart
            product == ProductNew(f.code, f.name, f.unit_price)
            after == AddItem(cart, product, q)
        IN  \A k \in EntriesOf(cart, f.code) :
                /\ Len(after) = Len(cart)
                /\ after[k].product = cart[k].product
                /\ after[k].quantity = cart[k].quantity + q
                /\ \A j \in DOMAIN cart : j # k => after[j] = cart[j]

\* what C21 asks of one step: an entry that keeps its place and code keeps
\* its product, and a change of the catalog changes no cart
C21_SnapshotStep ==
    /\ \A i \in DOMAIN users :
       \A k \in DOMAIN users[i].cart \cap DOMAIN users'[i].cart :
           users'[i].cart[k].product.code = users[i].cart[k].product.code
               => users'[i].cart[k].product = users[i].cart[k].product
    /\ products' # products =>
           \A i \in DOMAIN users : users'[i].cart = users[i].cart

\* C21: a cart entry is a snapshot of the product that first made it:
\* add_item for a code the cart holds changes only that entry's quantity
\* and keeps its name, unit price and place, also when the product passed
\* in has another name or price; add_product and remove_product change no
\* cart entry.
C21_Snapshot == [](C21_SnapshotInv) /\ [][C21_SnapshotStep]_vars

\* a cart holds, behind an entry of another code, the mask of code c1 with
\* a quantity two adds made, while the only product of code c1 left in the
\* catalog is the gel at another price
C21_Witness ==
    /\ \E k \in DOMAIN products : products[k].code = "c1"
    /\ \A k \in DOMAIN products :
           products[k].code = "c1" =>
               products[k].name = "gel" /\ products[k].unit_price = 2
    /\ \E i \in DOMAIN users :
           /\ Len(users[i].cart) = 2
           /\ users[i].cart[2].product =
                  [code |-> "c1", name |-> "mask", unit_price |-> 1]
           /\ users[i].cart[2].quantity = 2
           /\ added[i]["c1"] = <<2>>

====
